---- MODULE Spec2Model ----
(***************************************************************************)
(* The classification service of MalariaDetect.                            *)
(*                                                                         *)
(* Two alternative entry points serve the same HTTP surface on the same    *)
(* port: backend/main.py (MalariaClassifier + DatabaseManager) and         *)
(* backend/main_real.py (module-level model and classification_stats).     *)
(* A behaviour is a run of one of them; the variable app says which.       *)
(*                                                                         *)
(* Units.  A raw score or a confidence is a float in [0,1]; it is kept as  *)
(* an integer number of millionths, so 0.5 is Threshold and 1 is One.      *)
(* A duration is an integer number of milliseconds.  A mean is kept as the *)
(* exact fraction <<numerator, denominator>>.                              *)
(*                                                                         *)
(* Scheduling.  Every handler is an "async def" run by one event loop, so  *)
(* the code between two awaits that can suspend runs without interleaving. *)
(* The only such await in the handlers is "await file.read()"; an action   *)
(* of the model is the code from one of these points to the next.          *)
(***************************************************************************)
EXTENDS Integers, Sequences, FiniteSets, TLC

VARIABLES
    app,                    \* which entry point is running: "main" | "main_real"
    model,                  \* main_real.model / MalariaClassifier.model: the artifact it came from
    model_info,             \* main_real.model_info / MalariaClassifier.model_info
    model_loaded,           \* main_real.model_loaded / MalariaClassifier.model_loaded
    classification_stats,   \* main_real.classification_stats
    classification_results, \* rows of table classification_results, in insertion order
    uuid_count,             \* number of uuid4() values drawn so far
    now,                    \* datetime.utcnow(), in clock ticks
    req,                    \* per request slot: the request being handled
    pc,                     \* per request slot: "idle" | "read" | "done"
    local,                  \* per request slot: the handler's local variables
    resp,                   \* per request slot: the response sent
    effects,                \* per request slot: what the handler has done so far
    calls,                  \* every update_statistics call so far, in call order
    probe                   \* the score under test and the outcome of the threshold rule

vars == <<app, model, model_info, model_loaded, classification_stats, classification_results,
          uuid_count, now, req, pc, local, resp, effects, calls, probe>>

----------------------------------------------------------------------------
(* Bounds of the model *)

NumSlots == 2          \* requests in one run (each slot serves one request)
MaxSmallBatch == 2     \* longest batch enumerated file by file
MaxUploads == 2        \* files uploaded in one run of concurrent requests
MaxCalls == 102        \* update_statistics calls in a run of the aggregator
MaxVaried == 2         \* calls of such a run whose sample is free; the rest repeat
ScoreSteps == 20       \* grid of raw scores tried on the threshold rule
TicksPerSecond == 2    \* clock readings told apart within one second
MaxRows == 3           \* rows the result store holds when driven on its own
MaxLimit == 2          \* largest page size asked of the result store
MaxHours == 2          \* hours the clock moves on in a run of the aggregator
MaxArtifacts == 3      \* model artifacts put on disk in one run

(* Program constants *)

Threshold == 500000    \* 0.5, in millionths
One == 2 * Threshold   \* 1.0, in millionths
BufferCap == 100       \* "keep last 100"
RecentForMean == 10    \* processing_times[-10:]
RecentShown == 20      \* processing_times[-20:], confidence_scores[-20:]
MaxBatchSize == 50     \* "Maximum 50 images per batch"
HoursPerDay == 24
SecondsPerHour == 3600

Slots == 1..NumSlots

----------------------------------------------------------------------------
(* Python helpers *)

\* dict.get(k, 0) and d[k] = v on a dict kept as a function
DictGet(d, k) == IF k \in DOMAIN d THEN d[k] ELSE 0
DictPut_Single(d, k, v) == [x \in {k} |-> v]
DictPut(d, k, v) == [x \in (DOMAIN d) \cup {k} |-> IF x = k THEN v ELSE d[x]]
EmptyDict == [x \in {} |-> 0]

\* lst[-n:]
LastN(s, n) == IF Len(s) <= n THEN s ELSE SubSeq(s, Len(s) - n + 1, Len(s))

RECURSIVE SumSeq(_)
SumSeq(s) == IF s = <<>> THEN 0 ELSE s[1] + SumSeq(Tail(s))

\* strftime("%Y-%m-%d-%H") and strftime("%Y-%m-%d") of a time in ticks
HourKey(t) == t \div (SecondsPerHour * TicksPerSecond)
DayKey(t) == HourKey(t) \div HoursPerDay

----------------------------------------------------------------------------
(* Inference adapter: the threshold rule of each scheme *)

\* MalariaClassifier.predict, lines 191-197: Scheme A
MalariaClassifier_predict_GE(s) ==
    IF s >= Threshold
    THEN [prediction |-> "Parasitized", confidence |-> s]
    ELSE [prediction |-> "Uninfected", confidence |-> One - s]

MalariaClassifier_predict(s) ==
    IF s > Threshold
    THEN [prediction |-> "Parasitized", confidence |-> s]
    ELSE [prediction |-> "Uninfected", confidence |-> One - s]

\* main_real.predict_malaria, lines 160-167: Scheme B
predict_malaria_NoFlag(s, use_infected_labels) ==
    IF s > Threshold
    THEN [prediction |-> "Uninfected", confidence |-> s]
    ELSE [prediction |-> "Parasitized", confidence |-> One - s]

predict_malaria_RawConfidence(s, use_infected_labels) ==
    IF s > Threshold
    THEN [prediction |-> "Uninfected", confidence |-> s]
    ELSE [prediction |-> IF ~use_infected_labels THEN "Parasitized" ELSE "Infected",
          confidence |-> s]

predict_malaria(s, use_infected_labels) ==
    IF s > Threshold
    THEN [prediction |-> "Uninfected", confidence |-> s]
    ELSE [prediction |-> IF ~use_infected_labels THEN "Parasitized" ELSE "Infected",
          confidence |-> One - s]

----------------------------------------------------------------------------
(* Statistics aggregator *)

\* main_real.classification_stats, lines 43-53
InitialStats ==
    [total_classifications |-> 0,
     parasitized_count |-> 0,
     uninfected_count |-> 0,
     total_processing_time |-> 0,
     total_confidence |-> 0,
     processing_times |-> <<>>,
     confidence_scores |-> <<>>,
     daily_classifications |-> EmptyDict,
     hourly_classifications |-> EmptyDict]

\* append, then pop(0) once the length exceeds 100: lines 108-110, 113-115
KeepLast_PopNewest(buf, v) ==
    LET a == Append(buf, v)
    IN IF Len(a) > BufferCap THEN SubSeq(a, 1, Len(a) - 1) ELSE a

KeepLast_NoEvict(buf, v) == Append(buf, v)

KeepLast(buf, v) ==
    LET a == Append(buf, v)
    IN IF Len(a) > BufferCap THEN Tail(a) ELSE a

\* lines 102-105
CountsAsParasitized(prediction) == prediction \in {"Parasitized", "Infected"}

CountsAsUninfected_OnlyKnown(prediction) == prediction = "Uninfected"

CountsAsUninfected(prediction) == ~CountsAsParasitized(prediction)

\* main_real.update_statistics, lines 92-123; t1 and t2 are the two readings
\* of datetime.utcnow() at lines 118 and 122
update_statistics_Dropped(stats, prediction, confidence, processing_time, t1, t2) ==
    stats

update_statistics(stats, prediction, confidence, processing_time, t1, t2) ==
    [total_classifications |-> stats.total_classifications + 1,
     total_processing_time |-> stats.total_processing_time + processing_time,
     total_confidence |-> stats.total_confidence + confidence,
     parasitized_count |->
         stats.parasitized_count + (IF CountsAsParasitized(prediction) THEN 1 ELSE 0),
     uninfected_count |->
         stats.uninfected_count + (IF CountsAsUninfected(prediction) THEN 1 ELSE 0),
     processing_times |-> KeepLast(stats.processing_times, processing_time),
     confidence_scores |-> KeepLast(stats.confidence_scores, confidence),
     daily_classifications |->
         DictPut(stats.daily_classifications, DayKey(t1),
                 DictGet(stats.daily_classifications, DayKey(t1)) + 1),
     hourly_classifications |->
         DictPut(stats.hourly_classifications, HourKey(t2),
                 DictGet(stats.hourly_classifications, HourKey(t2)) + 1)]

\* main_real.get_statistics, lines 302-349: the body of the /stats response
get_statistics_Torn(stats, t) ==
    LET n == stats.total_classifications
                 + (IF \E q \in DOMAIN pc : pc[q] = "read" THEN 1 ELSE 0)
        recent_times == LastN(stats.processing_times, RecentForMean)
        avg_1h == IF stats.processing_times # <<>>
                  THEN <<SumSeq(recent_times) * 1000, Len(recent_times)>>
                  ELSE <<0, 1>>
    IN [total_classifications |-> n,
        total_users |-> 0,
        average_confidence |->
            IF n > 0 THEN <<stats.total_confidence, n>> ELSE <<0, 1>>,
        average_processing_time |->
            IF n > 0 THEN <<stats.total_processing_time * 1000, n>> ELSE <<0, 1>>,
        parasitized_count |-> stats.parasitized_count,
        uninfected_count |-> stats.uninfected_count,
        today_classifications |-> DictGet(stats.daily_classifications, DayKey(t)),
        avg_processing_time_1h |-> avg_1h,
        avg_processing_time_6h |-> avg_1h,
        avg_processing_time_12h |-> avg_1h,
        recent_processing_times |-> LastN(stats.processing_times, RecentShown),
        recent_confidence_scores |-> LastN(stats.confidence_scores, RecentShown)]

get_statistics(stats, t) ==
    LET n == stats.total_classifications
        recent_times == LastN(stats.processing_times, RecentForMean)
        avg_1h == IF stats.processing_times # <<>>
                  THEN <<SumSeq(recent_times) * 1000, Len(recent_times)>>
                  ELSE <<0, 1>>
    IN [total_classifications |-> n,
        total_users |-> 0,
        average_confidence |->
            IF n > 0 THEN <<stats.total_confidence, n>> ELSE <<0, 1>>,
        average_processing_time |->
            IF n > 0 THEN <<stats.total_processing_time * 1000, n>> ELSE <<0, 1>>,
        parasitized_count |-> stats.parasitized_count,
        uninfected_count |-> stats.uninfected_count,
        today_classifications |-> DictGet(stats.daily_classifications, DayKey(t)),
        avg_processing_time_1h |-> avg_1h,
        avg_processing_time_6h |-> avg_1h,
        avg_processing_time_12h |-> avg_1h,
        recent_processing_times |-> LastN(stats.processing_times, RecentShown),
        recent_confidence_scores |-> LastN(stats.confidence_scores, RecentShown)]

----------------------------------------------------------------------------
(* Inputs *)

NoType == "none"       \* UploadFile.content_type is None
NoModel == 0           \* model is None
NoInfo == [artifact |-> 0, default |-> FALSE]    \* model_info is None
FirstArtifact == 1     \* the model file found at startup
NoUser == "none"       \* user_id is None
NoBody == [detail |-> ""]
NoRequest == [kind |-> "none", files |-> <<>>, use_infected_labels |-> FALSE,
              user_id |-> NoUser, result_id |-> 0, limit |-> 0, offset |-> 0]
NoLocal == [idx |-> 0, results |-> <<>>, total_processing_time |-> 0]
NoEffects == [reads |-> 0, inferences |-> 0, records |-> 0, rows |-> 0,
              artifact |-> NoModel]
NoResponse == [status |-> 0, body |-> NoBody]
NoProbe == [s |-> 0, use_infected_labels |-> FALSE, scheme |-> "none",
            out |-> [prediction |-> "", confidence |-> 0]]

\* An uploaded file: what the client declares, whether PIL can decode the
\* bytes, the raw score the model gives the image, and what the decode and
\* the model call cost
FileA == [filename |-> "a.png", content_type |-> "image/png", decodable |-> TRUE,
          score |-> 800000, decode_ms |-> 3, infer_ms |-> 12]
FileB == [filename |-> "b.png", content_type |-> "image/png", decodable |-> TRUE,
          score |-> Threshold, decode_ms |-> 2, infer_ms |-> 30]
FileT == [filename |-> "t.txt", content_type |-> "text/plain", decodable |-> FALSE,
          score |-> 0, decode_ms |-> 0, infer_ms |-> 0]
FileX == [filename |-> "x.png", content_type |-> "image/png", decodable |-> FALSE,
          score |-> 0, decode_ms |-> 0, infer_ms |-> 0]
FileN == [filename |-> "n.png", content_type |-> NoType, decodable |-> TRUE,
          score |-> 200000, decode_ms |-> 1, infer_ms |-> 9]

Files == {FileA, FileB, FileT, FileX, FileN}

\* the user_id a client may name
Users == {"u1", "u2"}

RECURSIVE SeqsUpTo(_, _)
SeqsUpTo(S, n) ==
    IF n = 0 THEN {<<>>}
    ELSE LET shorter == SeqsUpTo(S, n - 1)
         IN shorter \cup {Append(q, x) : q \in shorter, x \in S}

\* a batch of n valid images, no two neighbours alike
FullBatch(n) == [i \in 1..n |-> IF i % 2 = 1 THEN FileA ELSE FileB]

SmallBatches == SeqsUpTo(Files, MaxSmallBatch)

BatchInputs ==
    SmallBatches \cup {FullBatch(MaxBatchSize), FullBatch(MaxBatchSize + 1)}

\* the samples fed to the aggregator on its own: any label string
Samples ==
    {[prediction |-> "Parasitized", confidence |-> 900000, processing_time |-> 12],
     [prediction |-> "Infected", confidence |-> 600000, processing_time |-> 30],
     [prediction |-> "Uninfected", confidence |-> Threshold, processing_time |-> 7],
     [prediction |-> "Unknown", confidence |-> One, processing_time |-> 0]}

Scores ==
    {(k * One) \div ScoreSteps : k \in 0..ScoreSteps}
        \cup {Threshold - 1, Threshold, Threshold + 1}

StartHour == 23

\* the service starts on a whole second of that hour
StartTime == StartHour * SecondsPerHour * TicksPerSecond

\* the requests arrive on a whole second or a fraction past it; only the
\* result store of main.py rounds a clock reading
StartTimes(entry_point) ==
    IF entry_point = "main" THEN {StartTime, StartTime + 1} ELSE {StartTime}

----------------------------------------------------------------------------
(* The state after construction and startup *)

\* model_info as read from the artifact's model_info.json
InfoOf(artifact) == [artifact |-> artifact, default |-> FALSE]

\* the model globals after a startup that loaded the first artifact with its
\* metadata, or found no model file
StartedWith(loaded) ==
    /\ model = (IF loaded THEN FirstArtifact ELSE NoModel)
    /\ model_info = (IF loaded THEN InfoOf(FirstArtifact) ELSE NoInfo)

InitCommon ==
    /\ classification_stats = InitialStats
    /\ classification_results = <<>>
    /\ uuid_count = 0
    /\ req = [r \in Slots |-> NoRequest]
    /\ pc = [r \in Slots |-> "idle"]
    /\ local = [r \in Slots |-> NoLocal]
    /\ resp = [r \in Slots |-> NoResponse]
    /\ effects = [r \in Slots |-> NoEffects]
    /\ calls = <<>>

\* main.py: startup_event fails, and nothing is served, unless load_model
\* returned; main_real.py: load_model reports a missing model by returning
\* False and the service starts without one
Init ==
    /\ InitCommon
    /\ app \in {"main", "main_real"}
    /\ now \in StartTimes(app)
    /\ model_loaded \in (IF app = "main" THEN {TRUE} ELSE BOOLEAN)
    /\ StartedWith(model_loaded)
    /\ probe = NoProbe

----------------------------------------------------------------------------
(* The aggregator on its own: update_statistics called with any sample *)

InitAgg ==
    /\ InitCommon
    /\ now = StartTime
    /\ app = "main_real"
    /\ model_loaded = TRUE
    /\ StartedWith(model_loaded)
    /\ probe = NoProbe

record(sample) ==
    /\ Len(calls) < MaxCalls
    /\ IF Len(calls) <= MaxVaried THEN TRUE ELSE sample = calls[Len(calls)]
    /\ classification_stats' =
           update_statistics(classification_stats, sample.prediction,
                             sample.confidence, sample.processing_time, now, now)
    /\ calls' = Append(calls, sample)
    /\ UNCHANGED <<app, model, model_info, model_loaded, classification_results, uuid_count, now,
                   req, pc, local, resp, effects, probe>>

\* the clock has reached the next hour; it moves while the samples are free
HourTicks == SecondsPerHour * TicksPerSecond

ClockMayMove ==
    /\ Len(calls) <= MaxVaried
    /\ now < StartTime + MaxHours * HourTicks

HourPasses ==
    /\ ClockMayMove
    /\ now' = now + HourTicks
    /\ UNCHANGED <<app, model, model_info, model_loaded, classification_stats, classification_results,
                   uuid_count, req, pc, local, resp, effects, calls, probe>>

\* update_statistics reads the clock twice, at lines 118 and 122: the hour
\* ends between the two readings
record_as_hour_ends(sample) ==
    /\ Len(calls) < MaxCalls
    /\ ClockMayMove
    /\ classification_stats' =
           update_statistics(classification_stats, sample.prediction,
                             sample.confidence, sample.processing_time,
                             now, now + HourTicks)
    /\ calls' = Append(calls, sample)
    /\ now' = now + HourTicks
    /\ UNCHANGED <<app, model, model_info, model_loaded, classification_results, uuid_count,
                   req, pc, local, resp, effects, probe>>

NextAgg ==
    \/ \E sample \in Samples : record(sample)
    \/ \E sample \in Samples : record_as_hour_ends(sample)
    \/ HourPasses

SpecAgg == InitAgg /\ [][NextAgg]_vars

----------------------------------------------------------------------------
(* The threshold rule on its own *)

InitPredict ==
    /\ InitCommon
    /\ now = StartTime
    /\ app = "main"
    /\ model_loaded = TRUE
    /\ StartedWith(model_loaded)
    /\ probe \in {[NoProbe EXCEPT !.s = s, !.use_infected_labels = f] :
                      s \in Scores, f \in BOOLEAN}

SchemeA ==
    /\ probe.scheme = "none"
    /\ probe' = [probe EXCEPT !.scheme = "A",
                              !.out = MalariaClassifier_predict(probe.s)]
    /\ UNCHANGED <<app, model, model_info, model_loaded, classification_stats, classification_results,
                   uuid_count, now, req, pc, local, resp, effects, calls>>

SchemeB ==
    /\ probe.scheme = "none"
    /\ probe' = [probe EXCEPT !.scheme = "B",
                              !.out = predict_malaria(probe.s, probe.use_infected_labels)]
    /\ UNCHANGED <<app, model, model_info, model_loaded, classification_stats, classification_results,
                   uuid_count, now, req, pc, local, resp, effects, calls>>

NextPredict == SchemeA \/ SchemeB

SpecPredict == InitPredict /\ [][NextPredict]_vars

----------------------------------------------------------------------------
(* Request handling: pieces shared by the handlers *)

HTTPException(status_code, detail) == [status |-> status_code, detail |-> detail]

\* "except Exception as e: raise HTTPException(status_code=500, detail=str(e))"
\* closes every handler's try block, and HTTPException is an Exception
except_Exception(e) == [status |-> 500, body |-> [detail |-> e.detail]]

\* an exception that is not an HTTPException
Raised(message) == [status |-> 0, detail |-> message]

\* str.startswith('image/') on the declared content types
StartsWithImage(content_type) == content_type \in {"image/png", "image/jpeg"}

\* uuid.uuid4(): the k-th value drawn
uuid4(k) == k

\* len(files) > 50
TooLarge_Off(files) == Len(files) > MaxBatchSize + 1

TooLarge(files) == Len(files) > MaxBatchSize

Decodes_Always(file) == TRUE

\* PIL's Image.open on the uploaded bytes
Decodes(file) == file.decodable

\* main.py lines 127-129: the entry the loop stops at from position i on,
\* Len(files) + 1 when it runs off the end; None has no startswith
RECURSIVE main_next_entry(_, _)
main_next_entry(files, i) ==
    IF i > Len(files) THEN [at |-> i, raised |-> FALSE]
    ELSE IF files[i].content_type = NoType THEN [at |-> i, raised |-> TRUE]
    ELSE IF ~StartsWithImage(files[i].content_type) THEN main_next_entry(files, i + 1)
    ELSE [at |-> i, raised |-> FALSE]

main_real_next_entry_NoSkip(files, i) == i

\* main_real.py lines 262-264
RECURSIVE main_real_next_entry(_, _)
main_real_next_entry(files, i) ==
    IF i > Len(files) THEN i
    ELSE IF files[i].content_type # NoType /\ ~StartsWithImage(files[i].content_type)
         THEN main_real_next_entry(files, i + 1)
    ELSE i

\* results.append({...}) of both batch handlers
ResultItem(id, file, prediction, confidence, processing_time) ==
    [result_id |-> id, filename |-> file.filename, prediction |-> prediction,
     confidence |-> confidence, processing_time |-> processing_time]

\* "total_processing_time += processing_time" of both batch handlers
add_processing_time_Last(total, processing_time) == processing_time

add_processing_time(total, processing_time) == total + processing_time

append_result_Front(results, item) == <<item>> \o results

append_result(results, item) == Append(results, item)

\* the body both batch handlers return
BatchBody(id, results, total, t) ==
    [batch_id |-> id, total_images |-> Len(results), results |-> results,
     total_processing_time |-> total, timestamp |-> t]

\* SQLite's CURRENT_TIMESTAMP: the time of the INSERT, to the whole second
CURRENT_TIMESTAMP(t) == t - (t % TicksPerSecond)

\* the row INSERTed by DatabaseManager.save_classification_result: the
\* statement names no timestamp, so the column takes its default
Row(id, user_id, file, prediction, confidence, processing_time, t) ==
    [result_id |-> id, user_id |-> user_id, filename |-> file.filename,
     prediction |-> prediction, confidence |-> confidence,
     processing_time |-> processing_time, timestamp |-> CURRENT_TIMESTAMP(t)]

Bump(e, field) == [e EXCEPT ![field] = @ + 1]

\* one more inference, run on the model the global names at that moment
Infer(e, m) == [Bump(e, "inferences") EXCEPT !.artifact = m]

----------------------------------------------------------------------------
(* Request handling: main_real.py *)

\* a request is taken by the lowest free slot
Free(r) == pc[r] = "idle" /\ \A q \in Slots : q < r => pc[q] # "idle"

\* the handler returns or raises: the response goes out
Finish(r, response) ==
    /\ pc' = [pc EXCEPT ![r] = "done"]
    /\ resp' = [resp EXCEPT ![r] = response]

\* the handler is suspended in "await file.read()"
Suspend(r) ==
    /\ pc' = [pc EXCEPT ![r] = "read"]
    /\ UNCHANGED resp

Sample(prediction, confidence, processing_time) ==
    [prediction |-> prediction, confidence |-> confidence,
     processing_time |-> processing_time]

LabelType(use_infected_labels) ==
    IF use_infected_labels THEN "Infected/Uninfected" ELSE "Parasitized/Uninfected"

\* classify_single_image, lines 199-212: up to "await file.read()"
main_real_classify_single_image(r, file, use_infected_labels) ==
    /\ app = "main_real"
    /\ Free(r)
    /\ req' = [req EXCEPT ![r] = [NoRequest EXCEPT
                                      !.kind = "classify", !.files = <<file>>,
                                      !.use_infected_labels = use_infected_labels]]
    /\ IF ~model_loaded
       THEN Finish(r, except_Exception(HTTPException(503, "Model not loaded")))
       ELSE IF file.content_type # NoType /\ ~StartsWithImage(file.content_type)
       THEN Finish(r, except_Exception(HTTPException(400, "File must be an image")))
       ELSE Suspend(r)
    /\ UNCHANGED <<app, model, model_info, model_loaded, classification_stats, classification_results,
                   uuid_count, now, local, effects, calls, probe>>

\* classify_single_image, lines 212-238: from the read to the response
main_real_classify_single_image_read(r) ==
    /\ app = "main_real"
    /\ pc[r] = "read"
    /\ req[r].kind = "classify"
    /\ LET file == req[r].files[1]
           p == predict_malaria(file.score, req[r].use_infected_labels)
           processing_time == file.infer_ms
       IN IF ~Decodes(file)
          THEN /\ Finish(r, except_Exception(Raised("cannot identify image file")))
               /\ effects' = [effects EXCEPT ![r] = Bump(@, "reads")]
               /\ UNCHANGED <<classification_stats, calls, uuid_count>>
          ELSE /\ classification_stats' =
                      update_statistics(classification_stats, p.prediction,
                                        p.confidence, processing_time, now, now)
               /\ calls' = Append(calls, Sample(p.prediction, p.confidence,
                                                processing_time))
               /\ uuid_count' = uuid_count + 1
               /\ effects' = [effects EXCEPT ![r] =
                                 Bump(Infer(Bump(@, "reads"), model), "records")]
               /\ Finish(r, [status |-> 200,
                             body |-> [result_id |-> uuid4(uuid_count + 1),
                                       filename |-> file.filename,
                                       prediction |-> p.prediction,
                                       confidence |-> p.confidence,
                                       processing_time |-> processing_time,
                                       timestamp |-> now,
                                       label_type |->
                                           LabelType(req[r].use_infected_labels)]])
    /\ UNCHANGED <<app, model, model_info, model_loaded, classification_results, now, req, local,
                   probe>>

\* classify_batch_images, lines 262-296: the loop from entry i on, up to the
\* next "await file.read()" or to the return
\* drawn is the number of uuid4() values drawn before the loop goes on
main_real_loop(r, files, i, results, total, drawn) ==
    LET j == main_real_next_entry(files, i)
    IN /\ local' = [local EXCEPT ![r] = [idx |-> j, results |-> results,
                                         total_processing_time |-> total]]
       /\ IF j > Len(files)
          THEN /\ Finish(r, [status |-> 200,
                             body |-> BatchBody(uuid4(drawn + 1), results, total, now)])
               /\ uuid_count' = drawn + 1
          ELSE /\ Suspend(r)
               /\ uuid_count' = drawn

\* classify_batch_images, lines 248-267: up to the first "await file.read()"
main_real_classify_batch_images(r, files, use_infected_labels) ==
    /\ app = "main_real"
    /\ Free(r)
    /\ req' = [req EXCEPT ![r] = [NoRequest EXCEPT
                                      !.kind = "batch", !.files = files,
                                      !.use_infected_labels = use_infected_labels]]
    /\ IF ~model_loaded
       THEN /\ Finish(r, except_Exception(HTTPException(503, "Model not loaded")))
            /\ UNCHANGED <<local, uuid_count>>
       ELSE IF TooLarge(files)
       THEN /\ Finish(r, except_Exception(
                             HTTPException(400, "Maximum 50 images per batch")))
            /\ UNCHANGED <<local, uuid_count>>
       ELSE main_real_loop(r, files, 1, <<>>, 0, uuid_count)
    /\ UNCHANGED <<app, model, model_info, model_loaded, classification_stats, classification_results,
                   now, effects, calls, probe>>

\* classify_batch_images, lines 267-296: one entry, from its read on
main_real_classify_batch_images_read(r) ==
    /\ app = "main_real"
    /\ pc[r] = "read"
    /\ req[r].kind = "batch"
    /\ LET files == req[r].files
           i == local[r].idx
           file == files[i]
           p == predict_malaria(file.score, req[r].use_infected_labels)
           processing_time == file.infer_ms
           item == ResultItem(uuid4(uuid_count + 1), file, p.prediction,
                              p.confidence, processing_time)
       IN IF ~Decodes(file)
          THEN /\ Finish(r, except_Exception(Raised("cannot identify image file")))
               /\ effects' = [effects EXCEPT ![r] = Bump(@, "reads")]
               /\ UNCHANGED <<classification_stats, calls, uuid_count, local>>
          ELSE /\ classification_stats' =
                      update_statistics(classification_stats, p.prediction,
                                        p.confidence, processing_time, now, now)
               /\ calls' = Append(calls, Sample(p.prediction, p.confidence,
                                                processing_time))
               /\ effects' = [effects EXCEPT ![r] =
                                 Bump(Infer(Bump(@, "reads"), model), "records")]
               /\ main_real_loop(r, files, i + 1,
                                 append_result(local[r].results, item),
                                 add_processing_time(
                                     local[r].total_processing_time,
                                     processing_time),
                                 uuid_count + 1)
    /\ UNCHANGED <<app, model, model_info, model_loaded, classification_results, now, req,
                   probe>>

main_real_get_statistics_Draining(r) ==
    /\ app = "main_real"
    /\ Free(r)
    /\ req' = [req EXCEPT ![r] = [NoRequest EXCEPT !.kind = "stats"]]
    /\ Finish(r, [status |-> 200, body |-> get_statistics(classification_stats, now)])
    /\ classification_stats' =
           [classification_stats EXCEPT
                !.processing_times = <<>>,
                !.confidence_scores = <<>>]
    /\ UNCHANGED <<app, model, model_info, model_loaded, classification_results,
                   uuid_count, now, local, effects, calls, probe>>

\* get_statistics, lines 302-349: no await, one step
main_real_get_statistics(r) ==
    /\ app = "main_real"
    /\ Free(r)
    /\ req' = [req EXCEPT ![r] = [NoRequest EXCEPT !.kind = "stats"]]
    /\ Finish(r, [status |-> 200, body |-> get_statistics(classification_stats, now)])
    /\ UNCHANGED <<app, model, model_info, model_loaded, classification_stats, classification_results,
                   uuid_count, now, local, effects, calls, probe>>

\* what load_model finds on disk: the artifact, whether Keras can load
\* models/malaria_model.h5 and whether models/model_info.json parses
Disk(artifact, model_file, info_file) ==
    [artifact |-> artifact, model_file |-> model_file, info_file |-> info_file]

Disks(artifact) ==
    {Disk(artifact, "absent", "absent"), Disk(artifact, "corrupt", "ok")}
        \cup {Disk(artifact, "ok", info_file) :
                  info_file \in {"absent", "corrupt", "ok"}}

\* load_model, lines 55-90: the three globals it leaves and what it returns;
\* "model" is assigned as soon as Keras returns, before the metadata is read
load_model(m, info, loaded, disk) ==
    IF disk.model_file # "ok"
    THEN [model |-> m, model_info |-> info, model_loaded |-> loaded,
          success |-> FALSE]
    ELSE IF disk.info_file = "corrupt"
    THEN [model |-> disk.artifact, model_info |-> info, model_loaded |-> loaded,
          success |-> FALSE]
    ELSE [model |-> disk.artifact,
          model_info |-> IF disk.info_file = "ok" THEN InfoOf(disk.artifact)
                         ELSE [artifact |-> disk.artifact, default |-> TRUE],
          model_loaded |-> TRUE,
          success |-> TRUE]

\* POST /model/reload, lines 371-384: load_model has no await, one step
main_real_reload_model(r, disk) ==
    /\ app = "main_real"
    /\ Free(r)
    /\ req' = [req EXCEPT ![r] = [NoRequest EXCEPT !.kind = "reload"]]
    /\ LET out == load_model(model, model_info, model_loaded, disk)
       IN /\ model' = out.model
          /\ model_info' = out.model_info
          /\ model_loaded' = out.model_loaded
          /\ IF out.success
             THEN Finish(r, [status |-> 200,
                             body |-> [detail |-> "Model reloaded successfully"]])
             ELSE Finish(r, except_Exception(
                                HTTPException(500, "Failed to reload model")))
    /\ UNCHANGED <<app, classification_stats, classification_results, uuid_count,
                   now, local, effects, calls, probe>>

\* GET /model/status, lines 351-369
main_real_get_model_status(r) ==
    /\ app = "main_real"
    /\ Free(r)
    /\ req' = [req EXCEPT ![r] = [NoRequest EXCEPT !.kind = "status"]]
    /\ IF model_info = NoInfo
       THEN Finish(r, [status |-> 200,
                       body |-> [model_loaded |-> FALSE,
                                 error |-> "Model not available"]])
       ELSE Finish(r, [status |-> 200,
                       body |-> [model_loaded |-> model_loaded,
                                 model_info |-> model_info,
                                 total_parameters |-> model]])
    /\ UNCHANGED <<app, model, model_info, model_loaded, classification_stats,
                   classification_results, uuid_count, now, local, effects, calls,
                   probe>>

----------------------------------------------------------------------------
(* Request handling: main.py *)

\* result_id TEXT PRIMARY KEY: a row with this id is already stored
PrimaryKeyTaken(rows, id) == \E i \in 1..Len(rows) : rows[i].result_id = id

save_classification_result_NoKey(rows, row) == Append(rows, row)

\* DatabaseManager.save_classification_result, lines 98-114: the INSERT and
\* the commit; an INSERT that breaks the primary key stores nothing
save_classification_result(rows, row) ==
    IF PrimaryKeyTaken(rows, row.result_id) THEN rows ELSE Append(rows, row)

\* whether the INSERT went through: it raises on a taken primary key, and
\* may raise on its own (locked or full database)
SaveOutcomes(rows, row) ==
    IF save_classification_result(rows, row) = rows THEN {FALSE} ELSE BOOLEAN

\* classify_single_image, lines 76-82: up to "await file.read()"
main_classify_single_image(r, file, user_id) ==
    /\ app = "main"
    /\ Free(r)
    /\ req' = [req EXCEPT ![r] = [NoRequest EXCEPT
                                      !.kind = "classify", !.files = <<file>>,
                                      !.user_id = user_id]]
    /\ IF file.content_type = NoType
       THEN Finish(r, except_Exception(
                          Raised("'NoneType' object has no attribute 'startswith'")))
       ELSE IF ~StartsWithImage(file.content_type)
       THEN Finish(r, except_Exception(HTTPException(400, "File must be an image")))
       ELSE Suspend(r)
    /\ UNCHANGED <<app, model, model_info, model_loaded, classification_stats, classification_results,
                   uuid_count, now, local, effects, calls, probe>>

\* classify_single_image, lines 82-110: from the read to the response;
\* MalariaClassifier.predict times its own decoding along with the model call
main_classify_single_image_read(r) ==
    /\ app = "main"
    /\ pc[r] = "read"
    /\ req[r].kind = "classify"
    /\ LET file == req[r].files[1]
           p == MalariaClassifier_predict(file.score)
           processing_time == file.decode_ms + file.infer_ms
           id == uuid4(uuid_count + 1)
           row == Row(id, req[r].user_id, file, p.prediction, p.confidence,
                      processing_time, now)
       IN IF ~Decodes(file)
          THEN /\ Finish(r, except_Exception(Raised("cannot identify image file")))
               /\ effects' = [effects EXCEPT ![r] = Bump(@, "reads")]
               /\ UNCHANGED <<classification_results, uuid_count>>
          ELSE IF ~model_loaded
          THEN /\ Finish(r, except_Exception(Raised("Model not loaded")))
               /\ effects' = [effects EXCEPT ![r] = Bump(@, "reads")]
               /\ UNCHANGED <<classification_results, uuid_count>>
          ELSE /\ uuid_count' = uuid_count + 1
               /\ \E saved \in SaveOutcomes(classification_results, row) :
                     IF saved
                     THEN /\ classification_results' =
                                 save_classification_result(classification_results,
                                                            row)
                          /\ effects' = [effects EXCEPT ![r] =
                                 Bump(Infer(Bump(@, "reads"), model), "rows")]
                          /\ Finish(r, [status |-> 200,
                                        body |-> [result_id |-> id,
                                                  filename |-> file.filename,
                                                  prediction |-> p.prediction,
                                                  confidence |-> p.confidence,
                                                  processing_time |-> processing_time,
                                                  timestamp |-> now]])
                     ELSE /\ UNCHANGED classification_results
                          /\ effects' = [effects EXCEPT ![r] =
                                 Infer(Bump(@, "reads"), model)]
                          /\ Finish(r, except_Exception(Raised("database error")))
    /\ UNCHANGED <<app, model, model_info, model_loaded, classification_stats, now, req, local,
                   calls, probe>>

\* classify_batch_images, lines 127-164: the loop from entry i on, up to the
\* next "await file.read()", to the return, or to the entry without a type
main_loop(r, files, i, results, total, drawn) ==
    LET n == main_next_entry(files, i)
    IN /\ local' = [local EXCEPT ![r] = [idx |-> n.at, results |-> results,
                                         total_processing_time |-> total]]
       /\ IF n.raised
          THEN /\ Finish(r, except_Exception(
                          Raised("'NoneType' object has no attribute 'startswith'")))
               /\ uuid_count' = drawn
          ELSE IF n.at > Len(files)
          THEN /\ Finish(r, [status |-> 200,
                             body |-> BatchBody(uuid4(drawn + 1), results, total, now)])
               /\ uuid_count' = drawn + 1
          ELSE /\ Suspend(r)
               /\ uuid_count' = drawn

\* classify_batch_images, lines 120-132: up to the first "await file.read()"
main_classify_batch_images(r, files, user_id) ==
    /\ app = "main"
    /\ Free(r)
    /\ req' = [req EXCEPT ![r] = [NoRequest EXCEPT
                                      !.kind = "batch", !.files = files,
                                      !.user_id = user_id]]
    /\ IF TooLarge(files)
       THEN /\ Finish(r, except_Exception(
                             HTTPException(400, "Maximum 50 images per batch")))
            /\ UNCHANGED <<local, uuid_count>>
       ELSE main_loop(r, files, 1, <<>>, 0, uuid_count)
    /\ UNCHANGED <<app, model, model_info, model_loaded, classification_stats, classification_results,
                   now, effects, calls, probe>>

\* classify_batch_images, lines 132-164: one entry, from its read on
main_classify_batch_images_read(r) ==
    /\ app = "main"
    /\ pc[r] = "read"
    /\ req[r].kind = "batch"
    /\ LET files == req[r].files
           i == local[r].idx
           file == files[i]
           p == MalariaClassifier_predict(file.score)
           processing_time == file.decode_ms + file.infer_ms
           id == uuid4(uuid_count + 1)
           item == ResultItem(id, file, p.prediction, p.confidence, processing_time)
           row == Row(id, req[r].user_id, file, p.prediction, p.confidence,
                      processing_time, now)
       IN IF ~Decodes(file)
          THEN /\ Finish(r, except_Exception(Raised("cannot identify image file")))
               /\ effects' = [effects EXCEPT ![r] = Bump(@, "reads")]
               /\ UNCHANGED <<classification_results, uuid_count, local>>
          ELSE IF ~model_loaded
          THEN /\ Finish(r, except_Exception(Raised("Model not loaded")))
               /\ effects' = [effects EXCEPT ![r] = Bump(@, "reads")]
               /\ UNCHANGED <<classification_results, uuid_count, local>>
          ELSE \E saved \in SaveOutcomes(classification_results, row) :
                  IF saved
                  THEN /\ classification_results' =
                              save_classification_result(classification_results,
                                                         row)
                       /\ effects' = [effects EXCEPT ![r] =
                              Bump(Infer(Bump(@, "reads"), model), "rows")]
                       /\ main_loop(r, files, i + 1,
                                    append_result(local[r].results, item),
                                    add_processing_time(
                                        local[r].total_processing_time,
                                        processing_time),
                                    uuid_count + 1)
                  ELSE /\ UNCHANGED classification_results
                       /\ effects' = [effects EXCEPT ![r] =
                              Infer(Bump(@, "reads"), model)]
                       /\ uuid_count' = uuid_count + 1
                       /\ local' = [local EXCEPT ![r].results =
                                        append_result(@, item),
                                    ![r].total_processing_time =
                                        add_processing_time(@, processing_time)]
                       /\ Finish(r, except_Exception(Raised("database error")))
    /\ UNCHANGED <<app, model, model_info, model_loaded, classification_stats, now, req,
                   calls, probe>>

----------------------------------------------------------------------------
(* The result store: DatabaseManager's reads and their handlers in main.py *)

\* DatabaseManager.get_classification_result: SELECT * ... WHERE result_id = ?
\* and fetchone(); <<>> is None, <<row>> the dict of the row
get_classification_result(rows, result_id) ==
    LET found == SelectSeq(rows, LAMBDA row : row.result_id = result_id)
    IN IF found = <<>> THEN <<>> ELSE <<found[1]>>

\* ORDER BY timestamp DESC over rows met in scan (insertion) order: a row goes
\* behind every row already placed whose timestamp is not smaller
RECURSIVE InsertByTimestampDesc(_, _)
InsertByTimestampDesc(sorted, row) ==
    IF sorted = <<>> THEN <<row>>
    ELSE IF Head(sorted).timestamp >= row.timestamp
         THEN <<Head(sorted)>> \o InsertByTimestampDesc(Tail(sorted), row)
    ELSE <<row>> \o sorted

OrderByTimestampDesc_ScanOrder(rows) == rows

RECURSIVE OrderByTimestampDesc(_)
OrderByTimestampDesc(rows) ==
    IF rows = <<>> THEN <<>>
    ELSE InsertByTimestampDesc(
             OrderByTimestampDesc(SubSeq(rows, 1, Len(rows) - 1)), rows[Len(rows)])

LimitOffset_OneMore(s, limit, offset) ==
    IF offset >= Len(s) THEN <<>>
    ELSE SubSeq(s, offset + 1,
                IF offset + limit + 1 < Len(s) THEN offset + limit + 1 ELSE Len(s))

\* LIMIT ? OFFSET ? with limit >= 0 and offset >= 0
LimitOffset(s, limit, offset) ==
    IF offset >= Len(s) THEN <<>>
    ELSE SubSeq(s, offset + 1,
                IF offset + limit < Len(s) THEN offset + limit ELSE Len(s))

\* DatabaseManager.get_user_results, lines 143-160
get_user_results(rows, user_id, limit, offset) ==
    LimitOffset(
        OrderByTimestampDesc(SelectSeq(rows, LAMBDA row : row.user_id = user_id)),
        limit, offset)

\* GET /results/{result_id}, main.py lines 175-182: no await that suspends
main_get_classification_result(r, result_id) ==
    /\ app = "main"
    /\ Free(r)
    /\ req' = [req EXCEPT ![r] = [NoRequest EXCEPT !.kind = "result",
                                                   !.result_id = result_id]]
    /\ LET result == get_classification_result(classification_results, result_id)
       IN IF result = <<>>
          THEN Finish(r, except_Exception(HTTPException(404, "Result not found")))
          ELSE Finish(r, [status |-> 200, body |-> result[1]])
    /\ UNCHANGED <<app, model, model_info, model_loaded, classification_stats, classification_results,
                   uuid_count, now, local, effects, calls, probe>>

\* GET /results/user/{user_id}, main.py lines 189-195
main_get_user_results(r, user_id, limit, offset) ==
    /\ app = "main"
    /\ Free(r)
    /\ req' = [req EXCEPT ![r] = [NoRequest EXCEPT !.kind = "user_results",
                                                   !.user_id = user_id,
                                                   !.limit = limit,
                                                   !.offset = offset]]
    /\ LET results == get_user_results(classification_results, user_id, limit,
                                       offset)
       IN Finish(r, [status |-> 200,
                     body |-> [user_id |-> user_id, results |-> results,
                               total |-> Len(results)]])
    /\ UNCHANGED <<app, model, model_info, model_loaded, classification_stats, classification_results,
                   uuid_count, now, local, effects, calls, probe>>

\* what main.py passes to the store for a file: the outcome of
\* MalariaClassifier.predict
ClassifiedAs(file) ==
    LET p == MalariaClassifier_predict(file.score)
    IN Sample(p.prediction, p.confidence, file.decode_ms + file.infer_ms)

\* DatabaseManager.save_classification_result called on its own, with any
\* result_id and any values: it returns None (the response stays empty) or
\* raises
DatabaseManager_save_classification_result(r, result_id, user_id, file, sample) ==
    /\ app = "main"
    /\ Free(r)
    /\ Len(classification_results) < MaxRows
    /\ req' = [req EXCEPT ![r] = [NoRequest EXCEPT !.kind = "save",
                                                   !.files = <<file>>,
                                                   !.user_id = user_id,
                                                   !.result_id = result_id]]
    /\ LET row == Row(result_id, user_id, file, sample.prediction,
                      sample.confidence, sample.processing_time, now)
       IN \E saved \in SaveOutcomes(classification_results, row) :
              IF saved
              THEN /\ classification_results' =
                          save_classification_result(classification_results, row)
                   /\ effects' = [effects EXCEPT ![r] = Bump(@, "rows")]
                   /\ Finish(r, NoResponse)
              ELSE /\ UNCHANGED <<classification_results, effects>>
                   /\ Finish(r, [status |-> 0,
                                 body |-> [detail |-> "database error"]])
    /\ UNCHANGED <<app, model, model_info, model_loaded, classification_stats, uuid_count, now,
                   local, calls, probe>>

\* the response has gone out: the slot takes the next request
release(r) ==
    /\ pc[r] = "done"
    /\ pc' = [pc EXCEPT ![r] = "idle"]
    /\ req' = [req EXCEPT ![r] = NoRequest]
    /\ resp' = [resp EXCEPT ![r] = NoResponse]
    /\ local' = [local EXCEPT ![r] = NoLocal]
    /\ effects' = [effects EXCEPT ![r] = NoEffects]
    /\ UNCHANGED <<app, model, model_info, model_loaded, classification_stats, classification_results,
                   uuid_count, now, calls, probe>>

\* the clock moves on, up to the first tick of the next second
MaxTicks == TicksPerSecond

Tick ==
    /\ now < StartTime + MaxTicks
    /\ now' = now + 1
    /\ UNCHANGED <<app, model, model_info, model_loaded, classification_stats, classification_results,
                   uuid_count, req, pc, local, resp, effects, calls, probe>>

InitStore ==
    /\ InitCommon
    /\ now = StartTime
    /\ app = "main"
    /\ model_loaded = TRUE
    /\ StartedWith(model_loaded)
    /\ probe = NoProbe

StoreIds == 1..MaxRows

NextStore ==
    \/ \E result_id \in StoreIds, user_id \in Users :
           DatabaseManager_save_classification_result(1, result_id, user_id, FileA,
                                                      ClassifiedAs(FileA))
    \/ \E result_id \in StoreIds \cup {MaxRows + 1} :
           main_get_classification_result(1, result_id)
    \/ \E user_id \in Users, limit \in 1..MaxLimit, offset \in 0..MaxRows :
           main_get_user_results(1, user_id, limit, offset)
    \/ release(1)
    \/ Tick

SpecStore == InitStore /\ [][NextStore]_vars

----------------------------------------------------------------------------
(* Uploads of any dimensions and size, classified one by one *)

MinDimension == 50             \* "minimum 50x50 pixels"
MaxDimension == 5000           \* "maximum 5000x5000 pixels"
MaxBytes == 10 * 1024 * 1024   \* "max 10MB"

\* a PNG of the given width and height, in pixels, and length, in bytes
Image(width, height, size) ==
    [filename |-> "a.png", content_type |-> "image/png", decodable |-> TRUE,
     score |-> 800000, decode_ms |-> 3, infer_ms |-> 12,
     width |-> width, height |-> height, size |-> size]

\* bytes that are no image
NoImage ==
    [filename |-> "x.png", content_type |-> "image/png", decodable |-> FALSE,
     score |-> 0, decode_ms |-> 0, infer_ms |-> 0,
     width |-> 0, height |-> 0, size |-> 1]

\* ImageProcessor.validate_image, lines 72-103, on a file of a supported
\* format: is_valid
validate_image(image) ==
    IF ~Decodes(image) THEN FALSE
    ELSE IF image.width < MinDimension \/ image.height < MinDimension THEN FALSE
    ELSE IF image.width > MaxDimension \/ image.height > MaxDimension THEN FALSE
    ELSE IF image.size > MaxBytes THEN FALSE
    ELSE TRUE

\* the dimensions and sizes on either side of each limit
Dimensions == {MinDimension - 1, MinDimension, MaxDimension, MaxDimension + 1}
ByteSizes == {MaxBytes, MaxBytes + 1}

Images ==
    {Image(w, h, s) : w \in Dimensions, h \in Dimensions, s \in ByteSizes}
        \cup {NoImage}

InitImage ==
    /\ InitCommon
    /\ app \in {"main", "main_real"}
    /\ now = StartTime
    /\ model_loaded = TRUE
    /\ StartedWith(model_loaded)
    /\ probe = NoProbe

NextImage ==
    \/ \E image \in Images, flag \in BOOLEAN :
           /\ Len(calls) < MaxUploads
           /\ main_real_classify_single_image(1, image, flag)
    \/ main_real_classify_single_image_read(1)
    \/ \E image \in Images :
           /\ uuid_count < MaxRows
           /\ main_classify_single_image(1, image, NoUser)
    \/ main_classify_single_image_read(1)
    \/ release(1)

SpecImage == InitImage /\ [][NextImage]_vars

----------------------------------------------------------------------------
(* The result store's statistics, over rows saved with any values *)

\* round(x, 3) of the fraction num / den of millionths (or of milliseconds,
\* then with unit 1): to the nearest multiple of the unit
Round(num, den, unit) == ((2 * num + den * unit) \div (2 * den * unit)) * unit

\* DatabaseManager.get_statistics, lines 165-218; "today" is taken as the
\* UTC day of the clock
DatabaseManager_get_statistics(rows, t) ==
    LET n == Len(rows)
    IN [total_classifications |-> n,
        total_users |->
            Cardinality({rows[i].user_id : i \in 1..n} \ {NoUser}),
        average_confidence |->
            IF n = 0 THEN 0 ELSE Round(SumSeq([i \in 1..n |-> rows[i].confidence]), n, 1000),
        average_processing_time |->
            IF n = 0 THEN 0 ELSE Round(SumSeq([i \in 1..n |-> rows[i].processing_time]), n, 1),
        parasitized_count |->
            Len(SelectSeq(rows, LAMBDA row : row.prediction = "Parasitized")),
        uninfected_count |->
            Len(SelectSeq(rows, LAMBDA row : row.prediction = "Uninfected")),
        today_classifications |->
            Len(SelectSeq(rows, LAMBDA row : DayKey(row.timestamp) = DayKey(t)))]

\* GET /stats of main.py, lines 200-210
main_get_statistics(r) ==
    /\ app = "main"
    /\ Free(r)
    /\ req' = [req EXCEPT ![r] = [NoRequest EXCEPT !.kind = "db_stats"]]
    /\ Finish(r, [status |-> 200,
                  body |-> DatabaseManager_get_statistics(classification_results,
                                                          now)])
    /\ UNCHANGED <<app, model, model_info, model_loaded, classification_stats,
                   classification_results, uuid_count, now, local, effects, calls,
                   probe>>

\* values a caller may hand to save_classification_result: the store is
\* given a string and two floats
StoreSamples ==
    {Sample("Parasitized", 800000, 15),
     Sample("Uninfected", Threshold, 32),
     Sample("Unknown", 600000, 30),
     Sample("Parasitized", One + Threshold, 12)}

NextStoreStats ==
    \/ \E result_id \in StoreIds, sample \in StoreSamples :
           DatabaseManager_save_classification_result(1, result_id, "u1", FileA,
                                                      sample)
    \/ main_get_statistics(1)
    \/ release(1)

SpecStoreStats == InitStore /\ [][NextStoreStats]_vars

----------------------------------------------------------------------------
(* main_real.py with its model reloaded while it serves *)

\* the model globals after startup_event's load_model on the first artifact
InitReload ==
    /\ InitCommon
    /\ now = StartTime
    /\ app = "main_real"
    /\ probe = NoProbe
    /\ \E disk \in Disks(FirstArtifact) :
           LET out == load_model(NoModel, NoInfo, FALSE, disk)
           IN /\ model = out.model
              /\ model_info = out.model_info
              /\ model_loaded = out.model_loaded

\* classifications started so far
Started == Len(calls) + Cardinality({q \in Slots : pc[q] = "read"})

\* the artifact a reload finds is a new one
NextReload ==
    \/ \E r \in Slots :
           /\ Free(r) /\ Started < MaxUploads
           /\ main_real_classify_single_image(r, FileA, FALSE)
    \/ \E r \in Slots : main_real_classify_single_image_read(r)
    \/ \E r \in Slots :
           /\ Free(r) /\ model < MaxArtifacts
           /\ \E disk \in Disks(model + 1) : main_real_reload_model(r, disk)
    \/ \E r \in Slots : main_real_get_model_status(r)
    \/ \E r \in Slots : main_real_get_statistics(r)
    \/ \E r \in Slots : release(r)

SpecReload == InitReload /\ [][NextReload]_vars

----------------------------------------------------------------------------
(* The service: concurrent requests *)

\* files uploaded so far by the requests of slots 1..n
RECURSIVE CountFiles(_)
CountFiles(n) == IF n = 0 THEN 0 ELSE Len(req[n].files) + CountFiles(n - 1)

Uploaded == CountFiles(NumSlots)

Fits(files) == Uploaded + Len(files) <= MaxUploads

\* the optional user_id of a classification request: left out
Callers == {NoUser}

Next ==
    \/ \E r \in Slots :
           /\ Free(r) /\ app = "main_real"
           /\ \E file \in Files, flag \in BOOLEAN :
                  Fits(<<file>>) /\ main_real_classify_single_image(r, file, flag)
    \/ \E r \in Slots : main_real_classify_single_image_read(r)
    \/ \E r \in Slots :
           /\ Free(r) /\ app = "main_real"
           /\ \E files \in SmallBatches, flag \in BOOLEAN :
                  Fits(files) /\ main_real_classify_batch_images(r, files, flag)
    \/ \E r \in Slots : main_real_classify_batch_images_read(r)
    \/ \E r \in Slots : main_real_get_statistics(r)
    \/ \E r \in Slots :
           /\ Free(r) /\ app = "main"
           /\ \E file \in Files, user_id \in Callers :
                  Fits(<<file>>) /\ main_classify_single_image(r, file, user_id)
    \/ \E r \in Slots : main_classify_single_image_read(r)
    \/ \E r \in Slots :
           /\ Free(r) /\ app = "main"
           /\ \E files \in SmallBatches, user_id \in Callers :
                  Fits(files) /\ main_classify_batch_images(r, files, user_id)
    \/ \E r \in Slots : main_classify_batch_images_read(r)
    \/ \E r \in Slots :
           /\ Free(r) /\ app = "main"
           /\ \E result_id \in 1..(uuid_count + 1) :
                  main_get_classification_result(r, result_id)

Spec == Init /\ [][Next]_vars

----------------------------------------------------------------------------
(* One batch request, of any size up to one past the cap, from its arrival *)
(* to its response                                                         *)

NextBatch ==
    \/ \E files \in BatchInputs, flag \in BOOLEAN :
           main_real_classify_batch_images(1, files, flag)
    \/ main_real_classify_batch_images_read(1)
    \/ \E files \in BatchInputs, user_id \in Callers :
           main_classify_batch_images(1, files, user_id)
    \/ main_classify_batch_images_read(1)

SpecBatch == Init /\ [][NextBatch]_vars

----------------------------------------------------------------------------
(* Properties of the statistics aggregator *)

Latencies(history) == [i \in 1..Len(history) |-> history[i].processing_time]
Confidences(history) == [i \in 1..Len(history) |-> history[i].confidence]

\* C1: after any sequence of update_statistics calls, with any label strings,
\* parasitized_count + uninfected_count equals total_classifications, and the
\* total is the number of calls
C1_LabelCountsSumToTotal ==
    /\ classification_stats.parasitized_count + classification_stats.uninfected_count
           = classification_stats.total_classifications
    /\ classification_stats.total_classifications = Len(calls)

\* labels of both branches, one of them an unforeseen string, have been recorded
C1_Witness ==
    /\ \E i \in 1..Len(calls) : calls[i].prediction = "Unknown"
    /\ \E i \in 1..Len(calls) : calls[i].prediction = "Infected"

\* C2: after n calls each rolling buffer holds exactly the last min(100, n)
\* recorded values, in call order
C2_BuffersHoldLastCalls ==
    /\ classification_stats.processing_times = LastN(Latencies(calls), BufferCap)
    /\ classification_stats.confidence_scores = LastN(Confidences(calls), BufferCap)

\* two entries have been evicted, and what was evicted differs from what is kept
C2_Witness ==
    /\ Len(calls) = BufferCap + 2
    /\ calls[1].confidence # calls[3].confidence
    /\ calls[1].processing_time # calls[3].processing_time

\* C3: both rolling buffers have length at most 100 in every state
C3_BuffersBounded ==
    /\ Len(classification_stats.processing_times) <= BufferCap
    /\ Len(classification_stats.confidence_scores) <= BufferCap

\* the buffers are full and a further call has been recorded
C3_Witness ==
    /\ Len(calls) > BufferCap
    /\ Len(classification_stats.processing_times) = BufferCap
    /\ Len(classification_stats.confidence_scores) = BufferCap

\* what a reader must see after exactly the first k calls
CountInfected(history) ==
    Cardinality({i \in 1..Len(history) :
                     history[i].prediction \in {"Parasitized", "Infected"}})

SeesWholeCalls(body, k) ==
    LET history == SubSeq(calls, 1, k)
    IN /\ body.total_classifications = k
       /\ body.parasitized_count = CountInfected(history)
       /\ body.uninfected_count = k - CountInfected(history)
       /\ body.recent_processing_times = LastN(Latencies(history), RecentShown)
       /\ body.recent_confidence_scores = LastN(Confidences(history), RecentShown)
       /\ body.average_confidence =
              IF k > 0 THEN <<SumSeq(Confidences(history)), k>> ELSE <<0, 1>>
       /\ body.average_processing_time =
              IF k > 0 THEN <<SumSeq(Latencies(history)) * 1000, k>> ELSE <<0, 1>>

\* C4: under any interleaving of /classify, /classify/batch and /stats
\* requests, every /stats response shows the effect of a whole number of
\* update_statistics calls: total, label counts, buffers and sums all belong
\* to the same prefix of the calls; and between any two steps the counters
\* themselves account for every call made
C4_SnapshotsNeverTorn ==
    /\ classification_stats.total_classifications = Len(calls)
    /\ classification_stats.parasitized_count = CountInfected(calls)
    /\ classification_stats.uninfected_count = Len(calls) - CountInfected(calls)
    /\ \A r \in Slots :
           (req[r].kind = "stats" /\ pc[r] = "done")
               => \E k \in 0..Len(calls) : SeesWholeCalls(resp[r].body, k)

\* /stats was served between two entries of a batch still in progress
C4_Witness ==
    \E r, q \in Slots :
        /\ req[r].kind = "stats" /\ pc[r] = "done"
        /\ resp[r].body.total_classifications = 1
        /\ req[q].kind = "batch" /\ pc[q] = "read"
        /\ effects[q].records = 1

----------------------------------------------------------------------------
(* Properties of the threshold rule *)

\* C5: Scheme A: a raw score above 0.5 gives "Parasitized" with the score as
\* confidence, any other score gives "Uninfected" with one minus the score
C5_SchemeA ==
    probe.scheme = "A" =>
        /\ probe.s > Threshold =>
               probe.out = [prediction |-> "Parasitized", confidence |-> probe.s]
        /\ probe.s <= Threshold =>
               probe.out = [prediction |-> "Uninfected", confidence |-> One - probe.s]

\* Scheme A applied to exactly 0.5
C5_Witness == probe.scheme = "A" /\ probe.s = Threshold

\* C6: Scheme B: a raw score above 0.5 gives "Uninfected" with the score as
\* confidence; any other score gives confidence one minus the score and the
\* label "Infected" when use_infected_labels is set, "Parasitized" when not
C6_SchemeB ==
    probe.scheme = "B" =>
        /\ probe.s > Threshold =>
               probe.out = [prediction |-> "Uninfected", confidence |-> probe.s]
        /\ (probe.s <= Threshold /\ probe.use_infected_labels) =>
               probe.out = [prediction |-> "Infected", confidence |-> One - probe.s]
        /\ (probe.s <= Threshold /\ ~probe.use_infected_labels) =>
               probe.out = [prediction |-> "Parasitized", confidence |-> One - probe.s]

\* Scheme B gave the alternate spelling
C6_Witness ==
    /\ probe.scheme = "B"
    /\ probe.use_infected_labels
    /\ probe.s < Threshold
    /\ probe.out.prediction = "Infected"

\* C7: for every raw score in [0,1], under both schemes, the label is one of
\* the scheme's two labels and the confidence lies in [0.5, 1]; at exactly
\* 0.5 the else branch is taken and the confidence is 0.5
C7_TwoLabelsAndConfidenceRange ==
    probe.scheme # "none" =>
        /\ probe.out.prediction \in
               (IF probe.scheme = "A" THEN {"Parasitized", "Uninfected"}
                ELSE IF probe.use_infected_labels THEN {"Infected", "Uninfected"}
                ELSE {"Parasitized", "Uninfected"})
        /\ Threshold <= probe.out.confidence
        /\ probe.out.confidence <= One
        /\ probe.s = Threshold =>
               /\ probe.out.confidence = Threshold
               /\ probe.out.prediction =
                      (IF probe.scheme = "A" THEN "Uninfected"
                       ELSE IF probe.use_infected_labels THEN "Infected"
                       ELSE "Parasitized")

\* Scheme B applied just below 0.5
C7_Witness == probe.scheme = "B" /\ probe.s = Threshold - 1

----------------------------------------------------------------------------
(* Properties of the batch handlers *)

ValidImage(file) == StartsWithImage(file.content_type) /\ file.decodable

IsBatch(r) == req[r].kind = "batch"

\* what the running entry point answers for one image
Expected(file, use_infected_labels) ==
    IF app = "main"
    THEN IF file.score > Threshold
         THEN [prediction |-> "Parasitized", confidence |-> file.score]
         ELSE [prediction |-> "Uninfected", confidence |-> One - file.score]
    ELSE IF file.score > Threshold
         THEN [prediction |-> "Uninfected", confidence |-> file.score]
         ELSE [prediction |-> IF use_infected_labels THEN "Infected" ELSE "Parasitized",
               confidence |-> One - file.score]

\* C8: a batch of N <= 50 valid images, served with a model loaded and with
\* every save succeeding, is answered 200 with exactly N results, the i-th
\* being the result of the i-th file, and total_images = N
C8_BatchResultsInInputOrder ==
    \A r \in Slots :
        (/\ IsBatch(r) /\ pc[r] = "done"
         /\ Len(req[r].files) <= MaxBatchSize
         /\ \A i \in 1..Len(req[r].files) : ValidImage(req[r].files[i])
         /\ model_loaded
         /\ effects[r].rows = (IF app = "main" THEN effects[r].inferences ELSE 0))
        => /\ resp[r].status = 200
           /\ resp[r].body.total_images = Len(req[r].files)
           /\ Len(resp[r].body.results) = Len(req[r].files)
           /\ \A i \in 1..Len(req[r].files) :
                  LET item == resp[r].body.results[i]
                      file == req[r].files[i]
                      e == Expected(file, req[r].use_infected_labels)
                  IN /\ item.filename = file.filename
                     /\ item.prediction = e.prediction
                     /\ item.confidence = e.confidence

\* a batch of exactly 50 valid images was answered
C8_Witness ==
    \E r \in Slots :
        /\ IsBatch(r) /\ pc[r] = "done"
        /\ Len(req[r].files) = MaxBatchSize
        /\ resp[r].status = 200
        /\ resp[r].body.results[1].filename # resp[r].body.results[2].filename

\* C9: a batch of more than 50 files is rejected in the step that receives
\* it: no file is read or classified, no statistic changes, no row is saved
C9_OversizeBatchRejectedBeforeProcessing ==
    [][\A r \in Slots :
           (/\ pc[r] = "idle" /\ pc'[r] # "idle"
            /\ req'[r].kind = "batch"
            /\ Len(req'[r].files) > MaxBatchSize)
           => /\ pc'[r] = "done"
              /\ resp'[r].status >= 400
              /\ effects'[r] = NoEffects
              /\ classification_stats' = classification_stats
              /\ classification_results' = classification_results
              /\ calls' = calls]_vars

\* a batch of 51 files reached the size check and was answered
C9_Witness ==
    \E r \in Slots :
        /\ IsBatch(r) /\ pc[r] = "done"
        /\ Len(req[r].files) = MaxBatchSize + 1
        /\ model_loaded
        /\ resp[r].status >= 400

\* C10: a batch of more than 50 files is answered with a 400-class status
C10_OversizeBatchIsClientError ==
    \A r \in Slots :
        (IsBatch(r) /\ pc[r] = "done" /\ Len(req[r].files) > MaxBatchSize
         /\ model_loaded)
        => (resp[r].status >= 400 /\ resp[r].status <= 499)

\* an entry whose declared content type is not an image type
DeclaredNotImage(file) ==
    file.content_type # NoType /\ ~StartsWithImage(file.content_type)

ImageEntries(files) == SelectSeq(files, LAMBDA file : ~DeclaredNotImage(file))

\* C11: in a batch of at most 50 entries, each either declared as a non-image
\* or a valid image, served with a model loaded and every save succeeding,
\* the non-image entries are skipped: the answer is 200, its results are the
\* image entries in input order, and only the image entries are read,
\* classified, recorded in the statistics or saved
C11_NonImageEntriesSkipped ==
    \A r \in Slots :
        (/\ IsBatch(r) /\ pc[r] = "done"
         /\ Len(req[r].files) <= MaxBatchSize
         /\ \A i \in 1..Len(req[r].files) :
                DeclaredNotImage(req[r].files[i]) \/ ValidImage(req[r].files[i])
         /\ model_loaded
         /\ effects[r].rows = (IF app = "main" THEN effects[r].inferences ELSE 0))
        => LET kept == ImageEntries(req[r].files)
           IN /\ resp[r].status = 200
              /\ Len(resp[r].body.results) = Len(kept)
              /\ \A i \in 1..Len(kept) :
                     LET item == resp[r].body.results[i]
                         e == Expected(kept[i], req[r].use_infected_labels)
                     IN /\ item.filename = kept[i].filename
                        /\ item.prediction = e.prediction
                        /\ item.confidence = e.confidence
              /\ effects[r].reads = Len(kept)
              /\ effects[r].inferences = Len(kept)
              /\ effects[r].records = (IF app = "main_real" THEN Len(kept) ELSE 0)
              /\ effects[r].rows = (IF app = "main" THEN Len(kept) ELSE 0)

\* a text entry ahead of an image: the image alone was answered
C11_Witness ==
    \E r \in Slots :
        /\ IsBatch(r) /\ pc[r] = "done"
        /\ req[r].files = <<FileT, FileA>>
        /\ resp[r].status = 200
        /\ Len(resp[r].body.results) = 1
        /\ resp[r].body.results[1].filename = FileA.filename

\* C12: a batch of at most 50 entries, all with a declared content type,
\* served with a model loaded and every save succeeding, is answered 200
\* with the results of its decodable images, whatever its other images are
C12_UndecodableImageOmitted ==
    \A r \in Slots :
        (/\ IsBatch(r) /\ pc[r] = "done"
         /\ Len(req[r].files) <= MaxBatchSize
         /\ \A i \in 1..Len(req[r].files) : req[r].files[i].content_type # NoType
         /\ model_loaded
         /\ effects[r].rows = (IF app = "main" THEN effects[r].inferences ELSE 0))
        => /\ resp[r].status = 200
           /\ Len(resp[r].body.results)
                  = Len(SelectSeq(req[r].files, ValidImage))

----------------------------------------------------------------------------
(* Properties of the single-image handlers *)

IsClassify(r) == req[r].kind = "classify"

\* C13: the step that answers a /classify request whose bytes cannot be
\* decoded answers with an error, and changes no statistic and no stored row
C13_UndecodableUploadChangesNothing ==
    [][\A r \in Slots :
           (/\ pc[r] # "done" /\ pc'[r] = "done"
            /\ req'[r].kind = "classify"
            /\ ~req'[r].files[1].decodable)
           => /\ resp'[r].status >= 400
              /\ effects'[r].inferences = 0
              /\ effects'[r].records = 0
              /\ effects'[r].rows = 0
              /\ classification_stats' = classification_stats
              /\ calls' = calls
              /\ classification_results' = classification_results]_vars

\* undecodable bytes declared as an image were read and refused
C13_Witness ==
    \E r \in Slots :
        /\ IsClassify(r) /\ pc[r] = "done"
        /\ req[r].files[1] = FileX
        /\ effects[r].reads = 1
        /\ resp[r].status >= 400

\* C14: with no model loaded, a single or batch classification is answered
\* 503 (service unavailable), with nothing classified, recorded or saved
C14_NoModelIsServiceUnavailable ==
    \A r \in Slots :
        (/\ IsClassify(r) \/ IsBatch(r)
         /\ pc[r] = "done"
         /\ ~model_loaded)
        => /\ resp[r].status = 503
           /\ effects[r].inferences = 0
           /\ effects[r].records = 0
           /\ effects[r].rows = 0

\* C15: a single classification whose inference succeeded and whose save
\* failed is still answered with its label and confidence
C15_StoreFailureStillAnswers ==
    \A r \in Slots :
        (/\ app = "main"
         /\ IsClassify(r) /\ pc[r] = "done"
         /\ effects[r].inferences = 1
         /\ effects[r].rows = 0)
        => /\ resp[r].status = 200
           /\ resp[r].body.prediction
                  = Expected(req[r].files[1], FALSE).prediction
           /\ resp[r].body.confidence
                  = Expected(req[r].files[1], FALSE).confidence

----------------------------------------------------------------------------
(* Properties of the result store *)

IsResult(r) == req[r].kind = "result"
IsUserResults(r) == req[r].kind = "user_results"

\* the stored rows with this result_id, as they were before the step
Stored(result_id) ==
    SelectSeq(classification_results, LAMBDA row : row.result_id = result_id)

\* C16: GET /results/{id} is answered 404 when no row with that id is stored,
\* and 200 with the stored row when there is one
C16_UnknownIdIsNotFound ==
    [][\A r \in Slots :
           (pc[r] = "idle" /\ pc'[r] = "done" /\ req'[r].kind = "result")
           => IF Stored(req'[r].result_id) = <<>>
              THEN resp'[r].status = 404
              ELSE /\ resp'[r].status = 200
                   /\ resp'[r].body = Stored(req'[r].result_id)[1]]_vars

\* C17: a GET /results/{id} that follows a successful POST /classify and
\* names the id it returned is answered with the label, the confidence and the
\* timestamp of that response
C17_RoundTripIdentical ==
    [][\A r, q \in Slots :
           (/\ IsClassify(r) /\ pc[r] = "done" /\ resp[r].status = 200
            /\ app = "main"
            /\ pc[q] = "idle" /\ pc'[q] = "done" /\ req'[q].kind = "result"
            /\ req'[q].result_id = resp[r].body.result_id)
           => /\ resp'[q].status = 200
              /\ resp'[q].body.result_id = resp[r].body.result_id
              /\ resp'[q].body.prediction = resp[r].body.prediction
              /\ resp'[q].body.confidence = resp[r].body.confidence
              /\ resp'[q].body.timestamp = resp[r].body.timestamp]_vars

UniqueIds(rows) ==
    \A i, j \in 1..Len(rows) : rows[i].result_id = rows[j].result_id => i = j

\* C18: after every step no two stored rows share a result_id, and a save
\* that names a stored result_id raises and leaves the rows as they were
C18_ResultIdsUnique ==
    [][/\ UniqueIds(classification_results')
       /\ \A r \in Slots :
              (/\ pc[r] = "idle" /\ pc'[r] = "done" /\ req'[r].kind = "save"
               /\ Stored(req'[r].result_id) # <<>>)
              => /\ classification_results' = classification_results
                 /\ resp'[r] # NoResponse]_vars

\* a save named the id of a row stored for another user, and raised
C18_Witness ==
    \E r \in Slots :
        /\ req[r].kind = "save" /\ pc[r] = "done"
        /\ resp[r] # NoResponse
        /\ \E i \in 1..Len(classification_results) :
               /\ classification_results[i].result_id = req[r].result_id
               /\ classification_results[i].user_id # req[r].user_id

\* where the row with this result_id sits in the table
RowId(result_id) ==
    CHOOSE k \in 1..Len(classification_results) :
        classification_results[k].result_id = result_id

\* C19 as stated: a user's list holds only that user's results, each with a
\* timestamp strictly greater than that of the next
C19_StrictlyDescending ==
    \A r \in Slots :
        (IsUserResults(r) /\ pc[r] = "done")
        => LET results == resp[r].body.results
           IN /\ \A i \in 1..Len(results) : results[i].user_id = req[r].user_id
              /\ \A i, j \in 1..Len(results) :
                     i < j => results[i].timestamp > results[j].timestamp

\* C19, amended: a user's list holds only that user's results, with
\* timestamps that never increase; results stored within the same second have
\* equal timestamps and come in the order they were stored
C19_DescendingWithTies ==
    \A r \in Slots :
        (IsUserResults(r) /\ pc[r] = "done")
        => LET results == resp[r].body.results
           IN /\ resp[r].status = 200
              /\ \A i \in 1..Len(results) : results[i].user_id = req[r].user_id
              /\ \A i, j \in 1..Len(results) :
                     i < j =>
                         /\ results[i].timestamp >= results[j].timestamp
                         /\ results[i].timestamp = results[j].timestamp
                                => RowId(results[i].result_id)
                                       < RowId(results[j].result_id)

\* a list of two results stored within the same second, while the user has a
\* result of another second
C19_Witness ==
    \E r \in Slots :
        /\ IsUserResults(r) /\ pc[r] = "done"
        /\ Len(resp[r].body.results) = 2
        /\ resp[r].body.results[1].timestamp = resp[r].body.results[2].timestamp
        /\ \E i \in 1..Len(classification_results) :
               /\ classification_results[i].user_id = req[r].user_id
               /\ classification_results[i].timestamp
                      # resp[r].body.results[1].timestamp

\* the pages at offsets k * limit, (k + 1) * limit, ... of the stored rows,
\* one after the other
RECURSIVE PagesFrom(_, _, _)
PagesFrom(user_id, limit, k) ==
    IF k > Len(classification_results) THEN <<>>
    ELSE get_user_results(classification_results, user_id, limit, k * limit)
             \o PagesFrom(user_id, limit, k + 1)

\* C20: every answered page has at most limit entries, and over the stored
\* rows the pages of a user at offsets 0, limit, 2 * limit, ... have at most
\* limit entries each and together hold each result of the user exactly once,
\* in the order of the user's whole list
C20_PagingExact ==
    /\ \A r \in Slots :
           (IsUserResults(r) /\ pc[r] = "done")
           => /\ Len(resp[r].body.results) <= req[r].limit
              /\ resp[r].body.total = Len(resp[r].body.results)
    /\ \A user_id \in Users, limit \in 1..MaxLimit :
           LET all == PagesFrom(user_id, limit, 0)
               mine == {i \in 1..Len(classification_results) :
                            classification_results[i].user_id = user_id}
           IN /\ \A k \in 0..Len(classification_results) :
                     Len(get_user_results(classification_results, user_id, limit,
                                          k * limit)) <= limit
              /\ Len(all) = Cardinality(mine)
              /\ {all[i].result_id : i \in 1..Len(all)}
                     = {classification_results[i].result_id : i \in mine}
              /\ all = get_user_results(classification_results, user_id,
                                        Len(classification_results), 0)

\* the second page of a user with more results than a page holds was answered
C20_Witness ==
    \E r \in Slots :
        /\ IsUserResults(r) /\ pc[r] = "done"
        /\ req[r].limit = 2 /\ req[r].offset = 2
        /\ Len(resp[r].body.results) = 1
        /\ Cardinality({i \in 1..Len(classification_results) :
               classification_results[i].user_id = req[r].user_id}) = 3

----------------------------------------------------------------------------
(* Further properties of the batch handlers *)

ProcessingTimes(results) == [i \in 1..Len(results) |-> results[i].processing_time]

\* C23: the total_processing_time of an answered batch is the sum of the
\* processing_time of the items in its results, 0 when there are none
C23_BatchTotalIsSumOfItems ==
    \A r \in Slots :
        (IsBatch(r) /\ pc[r] = "done" /\ resp[r].status = 200)
        => resp[r].body.total_processing_time
               = SumSeq(ProcessingTimes(resp[r].body.results))

\* a batch of 50 images with different latencies was answered
C23_Witness ==
    \E r \in Slots :
        /\ IsBatch(r) /\ pc[r] = "done" /\ resp[r].status = 200
        /\ Len(resp[r].body.results) = MaxBatchSize
        /\ resp[r].body.results[1].processing_time
               # resp[r].body.results[2].processing_time
        /\ resp[r].body.total_processing_time > 0

\* the entries of a batch ahead of position k that the loop does not skip
Before(files, k) == ImageEntries(SubSeq(files, 1, k - 1))

\* C30: when a batch of at most 50 files is answered with an error at entry
\* k, the entries before k have stayed recorded in the statistics
\* (main_real.py) or stored as rows (main.py), and the answer carries the
\* error detail alone
C30_FailedBatchKeepsEarlierEffects ==
    \A r \in Slots :
        (/\ IsBatch(r) /\ pc[r] = "done" /\ resp[r].status >= 400
         /\ Len(req[r].files) <= MaxBatchSize
         /\ model_loaded)
        => LET earlier == Before(req[r].files, local[r].idx)
           IN /\ DOMAIN resp[r].body = {"detail"}
              /\ app = "main_real" =>
                     /\ classification_stats.total_classifications = Len(earlier)
                     /\ Len(classification_stats.processing_times) = Len(earlier)
                     /\ \A i \in 1..Len(earlier) :
                            classification_stats.processing_times[i]
                                = earlier[i].infer_ms
              /\ app = "main" =>
                     /\ Len(classification_results) = Len(earlier)
                     /\ \A i \in 1..Len(earlier) :
                            classification_results[i].filename
                                = earlier[i].filename

\* a batch failed at its second entry after its first was classified
C30_Witness ==
    \E r \in Slots :
        /\ IsBatch(r) /\ pc[r] = "done" /\ resp[r].status >= 400
        /\ req[r].files = <<FileA, FileX>>
        /\ local[r].idx = 2
        /\ effects[r].inferences = 1

----------------------------------------------------------------------------
(* Further properties of the single-image handlers *)

\* C26: the processing_time of an answered classification is the time of the
\* model call alone, without the time spent decoding and resizing the image
C26_LatencyExcludesPreprocessing ==
    \A r \in Slots :
        (IsClassify(r) /\ pc[r] = "done" /\ resp[r].status = 200)
        => resp[r].body.processing_time = req[r].files[1].infer_ms

----------------------------------------------------------------------------
(* Further properties of the statistics aggregator *)

RECURSIVE SumOver(_, _)
SumOver(d, keys) ==
    IF keys = {} THEN 0
    ELSE LET k == CHOOSE x \in keys : TRUE
         IN d[k] + SumOver(d, keys \ {k})

\* the sum of the values of a dict
DictSum(d) == SumOver(d, DOMAIN d)

\* bucket k of the new map is one more than in the old map, every other
\* bucket of the old map is kept as it was, and no other bucket is new
BumpsOne(old, new, k) ==
    /\ DOMAIN new = (DOMAIN old) \cup {k}
    /\ new[k] = DictGet(old, k) + 1
    /\ \A x \in DOMAIN old : x # k => new[x] = old[x]

\* C29: after every step the day counts and the hour counts each add up to
\* total_classifications, and a call of update_statistics adds one to exactly
\* one day bucket and one hour bucket and leaves every other bucket as it was
C29_DayAndHourMapsSumToTotal ==
    [][/\ DictSum(classification_stats'.daily_classifications)
              = classification_stats'.total_classifications
       /\ DictSum(classification_stats'.hourly_classifications)
              = classification_stats'.total_classifications
       /\ calls' # calls =>
              /\ \E k \in DOMAIN classification_stats'.daily_classifications :
                     BumpsOne(classification_stats.daily_classifications,
                              classification_stats'.daily_classifications, k)
              /\ \E k \in DOMAIN classification_stats'.hourly_classifications :
                     BumpsOne(classification_stats.hourly_classifications,
                              classification_stats'.hourly_classifications, k)]_vars

\* calls fell into two days and three hours
C29_Witness ==
    /\ Cardinality(DOMAIN classification_stats.daily_classifications) = 2
    /\ Cardinality(DOMAIN classification_stats.hourly_classifications) = 3
    /\ classification_stats.total_classifications > 3

----------------------------------------------------------------------------
(* Properties of model loading *)

IsReload(r) == req[r].kind = "reload"
IsStatus(r) == req[r].kind = "status"

\* C21: a reload that is answered with an error leaves the model, model_info
\* and the loaded flag as they were
C21_FailedReloadKeepsPriorArtifact ==
    [][\A r \in Slots :
           (/\ pc[r] = "idle" /\ pc'[r] = "done" /\ req'[r].kind = "reload"
            /\ resp'[r].status >= 400)
           => /\ model' = model
              /\ model_info' = model_info
              /\ model_loaded' = model_loaded]_vars

\* C22: every /model/status answer that reports a model reports the
\* parameters of the model and the model_info of one and the same artifact
C22_NoHalfSwappedReference ==
    \A r \in Slots :
        (IsStatus(r) /\ pc[r] = "done" /\ "model_info" \in DOMAIN resp[r].body)
        => resp[r].body.total_parameters = resp[r].body.model_info.artifact

IsStats(r) == req[r].kind = "stats"

\* what a /stats answer tells of the counters and the samples
CountersAndSamples(body) ==
    <<body.total_classifications, body.parasitized_count, body.uninfected_count,
      body.average_confidence, body.average_processing_time,
      body.recent_processing_times, body.recent_confidence_scores>>

\* C27: a step that answers /stats or /model/status changes no statistic,
\* and a /stats answer given while an earlier answer's total is still the
\* current total repeats that answer's counters and samples
C27_DerivedReadsDoNotMutate ==
    [][\A q \in Slots :
           (/\ pc[q] = "idle" /\ pc'[q] = "done"
            /\ req'[q].kind \in {"stats", "status"})
           => /\ classification_stats' = classification_stats
              /\ calls' = calls
              /\ <<model, model_info, model_loaded>>'
                     = <<model, model_info, model_loaded>>
              /\ \A r \in Slots :
                     (/\ req'[q].kind = "stats"
                      /\ IsStats(r) /\ pc[r] = "done"
                      /\ resp[r].body.total_classifications
                             = classification_stats.total_classifications)
                     => CountersAndSamples(resp'[q].body)
                            = CountersAndSamples(resp[r].body)]_vars

\* two /stats answers after the same classification, and nothing lost
C27_Witness ==
    \E r, q \in Slots :
        /\ r # q
        /\ IsStats(r) /\ pc[r] = "done"
        /\ IsStats(q) /\ pc[q] = "done"
        /\ resp[r].body.total_classifications = 1
        /\ resp[q].body = resp[r].body
        /\ classification_stats.total_classifications = 1
        /\ Len(classification_stats.processing_times) = 1

----------------------------------------------------------------------------
(* The result store: what a save admits, and the statistics derived from it *)

Labels == {"Parasitized", "Uninfected"}

MeetsSchema(row) ==
    /\ row.prediction \in Labels
    /\ 0 <= row.confidence /\ row.confidence <= One

\* C24: the result store enforces its constraints on every save: a save whose
\* confidence lies outside [0, 1] or whose prediction is not one of the two
\* labels is rejected, so every stored row has a label of the two and a
\* confidence in [0, 1]
C24_SaveEnforcesSchemaConstraints ==
    \A i \in 1..Len(classification_results) :
        MeetsSchema(classification_results[i])

IsStoreStats(r) == req[r].kind = "db_stats"

\* C28: the statistics derived from the store have parasitized_count +
\* uninfected_count = total_classifications, and total_classifications is
\* the number of stored rows, in every store state reached through save
C28_StoreCountsSumToTotal ==
    \A r \in Slots :
        (IsStoreStats(r) /\ pc[r] = "done")
        => /\ resp[r].status = 200
           /\ resp[r].body.total_classifications = Len(classification_results)
           /\ resp[r].body.parasitized_count + resp[r].body.uninfected_count
                  = resp[r].body.total_classifications

----------------------------------------------------------------------------
(* Image validation ahead of inference *)

\* C25: an upload that cannot be decoded, is narrower or lower than 50 pixels,
\* wider or higher than 5000 pixels, or longer than 10 MiB fails before any
\* inference; an upload of exactly 50 or 5000 pixels, or of exactly 10 MiB,
\* is accepted
C25_InvalidImageFailsBeforeInference ==
    \A r \in Slots :
        (IsClassify(r) /\ pc[r] = "done")
        => IF validate_image(req[r].files[1])
           THEN effects[r].inferences = 1
           ELSE resp[r].status >= 400 /\ effects[r].inferences = 0

====
